---------------------------- MODULE Spec2Model ----------------------------
(***************************************************************************)
(* Sleep Routine Designer: the action handlers of src/actions/index.ts     *)
(* over the three tables of the schema (SleepRoutines, SleepRoutineSteps,  *)
(* SleepLogs).                                                             *)
(*                                                                         *)
(* Conventions.                                                            *)
(*  - An optional value (a zod .optional() input, a nullable column) is    *)
(*    None (undefined / NULL) or Some(v).                                  *)
(*  - An identifier string is a natural number: 0 is the empty string "",  *)
(*    n >= 1 is the n-th value produced by crypto.randomUUID() for that    *)
(*    table (a collision of two UUIDs is not modelled).                    *)
(*  - A table is the set of its rows; a row is a record of its columns.    *)
(*  - A Date is a natural number; new Date() reads the clock `now`.        *)
(***************************************************************************)
EXTENDS Integers, Sequences, FiniteSets, TLC

VARIABLES
    SleepRoutines,      \* table SleepRoutines
    SleepRoutineSteps,  \* table SleepRoutineSteps
    SleepLogs,          \* table SleepLogs
    now,                \* the clock read by new Date()
    foreignKeys,        \* whether the storage enforces the declared references
    pending,            \* updateRoutine calls between two awaited statements
    request,            \* history: the last call answered (operation, caller, input)
    result,             \* what that call returned or threw
    createdSteps,       \* history: routine id -> the step list createRoutine was
                        \* given, until an updateRoutine replaces the steps
    batch               \* history: step lists of the overlapping updateRoutine calls

vars == <<SleepRoutines, SleepRoutineSteps, SleepLogs, now, foreignKeys,
          pending, request, result, createdSteps, batch>>

tables == <<SleepRoutines, SleepRoutineSteps, SleepLogs>>

history == <<createdSteps, batch>>

-----------------------------------------------------------------------------
(* Bounds of the exploration.                                              *)

\* Rows of SleepRoutines.
MaxRoutines == 2
\* Rows of SleepRoutineSteps when a call is served alone; length of a step list.
MaxStepRows == 2
\* Rows of SleepLogs.
MaxLogs == 2
\* Readings of the clock after the first.
MaxClock == 1
\* updateRoutine calls that overlap.
MaxPending == 2
\* Largest page and pageSize asked of listSleepLogs.
MaxPage == 2

-----------------------------------------------------------------------------
(* Optional values, strings used as identifiers, callers.                  *)

None == <<>>
Some(v) == <<v>>
IsDefined(o) == o # None
Get(o) == o[1]

\* a ?? b
OrElse(o, d) == IF IsDefined(o) THEN Get(o) ELSE d

EmptyString == 0

\* JavaScript truthiness of an optional string: undefined and "" are falsy.
Truthy(o) == IsDefined(o) /\ Get(o) # EmptyString

Users == {"A", "B"}
NoUser == "anonymous"
Callers == Users \cup {NoUser}

\* requireUser: the user of the request context, or UNAUTHORIZED.
requireUser(caller) == caller \in Users

\* Identifier strings a caller can send: "", every id in use or not yet used.
RoutineIdStrings == {EmptyString} \cup 1..(MaxRoutines + 1)
LogIdStrings == {EmptyString} \cup 1..(MaxLogs + 1)

-----------------------------------------------------------------------------
(* Input schemas.                                                          *)

\* routineStepInput: the step definitions used as inputs.
routineStepInput ==
    { [title |-> "wind down", description |-> None,
       minutesBeforeBed |-> None, orderIndex |-> None],
      [title |-> "dim lights", description |-> Some("hallway too"),
       minutesBeforeBed |-> Some(0 - 30), orderIndex |-> Some(3)] }

StepLists == UNION { [1..n -> routineStepInput] : n \in 0..MaxStepRows }

OptionalStepLists == {None} \cup { Some(l) : l \in StepLists }

\* routineBaseFields: the keys the sparse patch iterates over.
routineBaseFields ==
    {"name", "goalDescription", "targetBedTimeLocal", "targetWakeTimeLocal",
     "timeZone", "notes"}

\* Field values of the createRoutine inputs (name is required, non-empty).
MinimalFields ==
    [name |-> Some("Weekday"), goalDescription |-> None,
     targetBedTimeLocal |-> None, targetWakeTimeLocal |-> None,
     timeZone |-> None, notes |-> None]

FullFields ==
    [name |-> Some("Travel"), goalDescription |-> Some("sleep by 11"),
     targetBedTimeLocal |-> Some("23:00"), targetWakeTimeLocal |-> Some("06:00"),
     timeZone |-> Some("Asia/Dubai"), notes |-> Some("n0")]

\* Field values of the updateRoutine inputs: every field optional.
EmptyPatch ==
    [name |-> None, goalDescription |-> None,
     targetBedTimeLocal |-> None, targetWakeTimeLocal |-> None,
     timeZone |-> None, notes |-> None]

NotesPatch == [EmptyPatch EXCEPT !.notes = Some("n1")]

PlanPatch ==
    [EmptyPatch EXCEPT !.name = Some("Weekend"), !.goalDescription = Some("sleep in"),
                       !.targetBedTimeLocal = Some("22:30"),
                       !.targetWakeTimeLocal = Some("07:00"),
                       !.timeZone = Some("Europe/Oslo")]

RoutinePatches == {EmptyPatch, NotesPatch, PlanPatch}

WithSteps(fields, steps) ==
    [name |-> fields.name, goalDescription |-> fields.goalDescription,
     targetBedTimeLocal |-> fields.targetBedTimeLocal,
     targetWakeTimeLocal |-> fields.targetWakeTimeLocal,
     timeZone |-> fields.timeZone, notes |-> fields.notes, steps |-> steps]

\* sleepLogFields: the keys of a sleep log input.
sleepLogFields ==
    {"routineId", "sleepDate", "bedTime", "wakeTime", "sleepQualityScore", "notes"}

EmptyLogInput ==
    [routineId |-> None, sleepDate |-> None, bedTime |-> None, wakeTime |-> None,
     sleepQualityScore |-> None, notes |-> None]

\* A night's details: bed and wake time, a score within 1..10, notes.
NightPatch ==
    [EmptyLogInput EXCEPT !.bedTime = Some(0), !.wakeTime = Some(1),
                          !.sleepQualityScore = Some(7), !.notes = Some("restless")]

OptionalRoutineIds == {None} \cup { Some(i) : i \in RoutineIdStrings }
OptionalDates == {None} \cup { Some(t) : t \in 0..MaxClock }

-----------------------------------------------------------------------------
(* Storage statements.                                                     *)

\* Mutant: the select matches the id alone.
SelectRoutineById(routines, rid, uid) ==
    { r \in routines : r.id = rid }

\* select().from(SleepRoutines).where(id = rid AND userId = uid)
SelectRoutine(routines, rid, uid) ==
    { r \in routines : r.id = rid /\ r.userId = uid }

\* crypto.randomUUID() for a routine: an identifier no row has.
NewRoutineId(routines) ==
    CHOOSE n \in 1..(Cardinality(routines) + 1) : \A r \in routines : r.id # n

\* crypto.randomUUID() for the k-th step of a batch: identifiers no row has.
NewStepId(steps, k) ==
    LET used == { s.id : s \in steps }
        free == { n \in 1..(Cardinality(steps) + k) : n \notin used }
        RECURSIVE Nth(_, _)
        Nth(S, i) == LET m == CHOOSE x \in S : \A y \in S : x <= y
                     IN IF i = 1 THEN m ELSE Nth(S \ {m}, i - 1)
    IN Nth(free, k)

\* Mutant: the order index is always the position.
StepValuesByPosition(steps, rid, list, at) ==
    { [id |-> NewStepId(steps, i),
       routineId |-> rid,
       orderIndex |-> i,
       title |-> list[i].title,
       description |-> list[i].description,
       minutesBeforeBed |-> list[i].minutesBeforeBed,
       createdAt |-> at] : i \in 1..Len(list) }

\* input.steps.map((step, index) => ({ ... })): the rows of a step list.
StepValues(steps, rid, list, at) ==
    { [id |-> NewStepId(steps, i),
       routineId |-> rid,
       orderIndex |-> OrElse(list[i].orderIndex, i),
       title |-> list[i].title,
       description |-> list[i].description,
       minutesBeforeBed |-> list[i].minutesBeforeBed,
       createdAt |-> at] : i \in 1..Len(list) }

\* db.insert(SleepRoutineSteps).values(stepValues)
InsertSteps(steps, rid, list, at) == steps \cup StepValues(steps, rid, list, at)

\* Mutant: the delete matches the step's own id.
DeleteStepsById(steps, rid) == { s \in steps : s.id # rid }

\* db.delete(SleepRoutineSteps).where(routineId = rid)
DeleteSteps(steps, rid) == { s \in steps : s.routineId # rid }

\* Mutant: every base field is written, the undefined ones as NULL.
RoutineUpdateDataAllKeys(patch, at) ==
    [k \in {"updatedAt"} \cup routineBaseFields |->
        IF k = "updatedAt" THEN at ELSE patch[k]]

\* The updateData of updateRoutine: updatedAt, and the defined base fields.
RoutineUpdateData(patch, at) ==
    [k \in {"updatedAt"} \cup { f \in routineBaseFields : IsDefined(patch[f]) } |->
        IF k = "updatedAt" THEN at ELSE patch[k]]

\* db.update(T).set(data).where(id = rid AND userId = uid)
UpdateWhere(rows, rid, uid, data) ==
    { IF r.id = rid /\ r.userId = uid
        THEN [c \in DOMAIN r |-> IF c \in DOMAIN data THEN data[c] ELSE r[c]]
        ELSE r : r \in rows }

\* Mutant: only the rows whose active flag the update changed are counted.
RowsChanged(rows, rid, uid) ==
    Cardinality({ r \in rows : r.id = rid /\ r.userId = uid /\ r.isActive })

\* rowsAffected of that update.
RowsAffected(rows, rid, uid) ==
    Cardinality({ r \in rows : r.id = rid /\ r.userId = uid })

\* Permutations of a finite set, as sequences.
Enumerations(S) ==
    { f \in [1..Cardinality(S) -> S] : \A i, j \in 1..Cardinality(S) : f[i] = f[j] => i = j }

\* .where(routineId = rid).orderBy(asc(orderIndex)): every order the sort allows.
SelectStepsOrdered(steps, rid) ==
    { f \in Enumerations({ s \in steps : s.routineId = rid }) :
        \A i, j \in DOMAIN f : i < j => f[i].orderIndex <= f[j].orderIndex }

-----------------------------------------------------------------------------
(* Responses.                                                              *)

Ok(data) == [code |-> "OK", data |-> data]
Error(code) == [code |-> code, data |-> None]

\* The call is answered: the answer, and the history of what was asked.
Respond(op, caller, input, answer) ==
    /\ result' = [op |-> op, caller |-> caller, code |-> answer.code, data |-> answer.data]
    /\ request' = [op |-> op, caller |-> caller, input |-> input]

-----------------------------------------------------------------------------
(* Routine Service.                                                        *)

\* The routine row createRoutine inserts.
NewRoutineRow(rid, uid, input, at) ==
    [id |-> rid, userId |-> uid,
     name |-> input.name, goalDescription |-> input.goalDescription,
     targetBedTimeLocal |-> input.targetBedTimeLocal,
     targetWakeTimeLocal |-> input.targetWakeTimeLocal,
     timeZone |-> input.timeZone, notes |-> input.notes,
     isActive |-> TRUE, createdAt |-> at, updatedAt |-> at]

\* if (input.steps?.length): a step list is given and non-empty.
HasSteps(steps) == IsDefined(steps) /\ Len(Get(steps)) > 0

\* The step rows createRoutine leaves in the table.
CreateSteps(steps, rid, given, at) ==
    IF HasSteps(given) THEN InsertSteps(steps, rid, Get(given), at) ELSE steps

createRoutine(caller, input) ==
    /\ UNCHANGED <<SleepLogs, now, foreignKeys, pending, batch>>
    /\ IF ~requireUser(caller)
         THEN /\ Respond("createRoutine", caller, input, Error("UNAUTHORIZED"))
              /\ UNCHANGED <<SleepRoutines, SleepRoutineSteps, createdSteps>>
         ELSE /\ Cardinality(SleepRoutines) < MaxRoutines
              /\ LET routineId == NewRoutineId(SleepRoutines)
                 IN /\ SleepRoutines' = SleepRoutines \cup
                          {NewRoutineRow(routineId, caller, input, now)}
                    /\ SleepRoutineSteps' =
                          CreateSteps(SleepRoutineSteps, routineId, input.steps, now)
                    /\ Cardinality(SleepRoutineSteps') <= MaxStepRows
                    /\ createdSteps' = createdSteps @@
                          (routineId :> Some(OrElse(input.steps, <<>>)))
                    /\ Respond("createRoutine", caller, input, Ok([id |-> routineId]))

\* Mutant: if (input.steps?.length) { delete; insert }, as in createRoutine.
ReplaceStepsIfAny(steps, rid, given, at) ==
    IF HasSteps(given)
      THEN InsertSteps(DeleteSteps(steps, rid), rid, Get(given), at)
      ELSE steps

\* The steps part of updateRoutine: if (input.steps) { delete; if (length) insert }.
ReplaceSteps(steps, rid, given, at) ==
    IF IsDefined(given)
      THEN IF Len(Get(given)) > 0
             THEN InsertSteps(DeleteSteps(steps, rid), rid, Get(given), at)
             ELSE DeleteSteps(steps, rid)
      ELSE steps

\* updateRoutine, each call served before the next one starts.
updateRoutine(caller, input) ==
    /\ UNCHANGED <<SleepLogs, now, foreignKeys, pending, batch>>
    /\ IF ~requireUser(caller)
         THEN /\ Respond("updateRoutine", caller, input, Error("UNAUTHORIZED"))
              /\ UNCHANGED <<SleepRoutines, SleepRoutineSteps, createdSteps>>
         ELSE IF SelectRoutine(SleepRoutines, input.id, caller) = {}
           THEN /\ Respond("updateRoutine", caller, input, Error("NOT_FOUND"))
                /\ UNCHANGED <<SleepRoutines, SleepRoutineSteps, createdSteps>>
           ELSE /\ SleepRoutines' =
                      UpdateWhere(SleepRoutines, input.id, caller,
                                  RoutineUpdateData(input.patch, now))
                /\ SleepRoutineSteps' =
                      ReplaceSteps(SleepRoutineSteps, input.id, input.patch.steps, now)
                /\ Cardinality(SleepRoutineSteps') <= MaxStepRows
                /\ createdSteps' = IF IsDefined(input.patch.steps)
                                     THEN [createdSteps EXCEPT ![input.id] = None]
                                     ELSE createdSteps
                /\ Respond("updateRoutine", caller, input, Ok(None))

\* The set(...) of archiveRoutine.
ArchiveData(at) == [isActive |-> FALSE, updatedAt |-> at]

archiveRoutine(caller, input) ==
    /\ UNCHANGED <<SleepRoutineSteps, SleepLogs, now, foreignKeys, pending, history>>
    /\ IF ~requireUser(caller)
         THEN /\ Respond("archiveRoutine", caller, input, Error("UNAUTHORIZED"))
              /\ UNCHANGED SleepRoutines
         ELSE /\ SleepRoutines' =
                    UpdateWhere(SleepRoutines, input.id, caller, ArchiveData(now))
              /\ Respond("archiveRoutine", caller, input,
                         IF RowsAffected(SleepRoutines, input.id, caller) = 0
                           THEN Error("NOT_FOUND") ELSE Ok(None))

getRoutineWithSteps(caller, input) ==
    /\ UNCHANGED <<tables, now, foreignKeys, pending, history>>
    /\ IF ~requireUser(caller)
         THEN Respond("getRoutineWithSteps", caller, input, Error("UNAUTHORIZED"))
         ELSE IF SelectRoutine(SleepRoutines, input.id, caller) = {}
           THEN Respond("getRoutineWithSteps", caller, input, Error("NOT_FOUND"))
           ELSE \E routine \in SelectRoutine(SleepRoutines, input.id, caller),
                   steps \in SelectStepsOrdered(SleepRoutineSteps, input.id) :
                    Respond("getRoutineWithSteps", caller, input,
                            Ok([routine |-> routine, steps |-> steps]))

\* Mutant: the active flag is not filtered on.
RoutineFilterOwnerOnly(r, uid, includeInactive) == r.userId = uid

\* The filters of listMyRoutines.
RoutineFilter(r, uid, includeInactive) ==
    r.userId = uid /\ (includeInactive \/ r.isActive = TRUE)

\* .where(and(...filters)).orderBy(desc(updatedAt)): every order the sort allows.
SelectRoutinesOrdered(routines, uid, includeInactive) ==
    { f \in Enumerations({ r \in routines : RoutineFilter(r, uid, includeInactive) }) :
        \A i, j \in DOMAIN f : i < j => f[i].updatedAt >= f[j].updatedAt }

listMyRoutines(caller, input) ==
    /\ UNCHANGED <<tables, now, foreignKeys, pending, history>>
    /\ IF ~requireUser(caller)
         THEN Respond("listMyRoutines", caller, input, Error("UNAUTHORIZED"))
         ELSE \E routines \in SelectRoutinesOrdered(SleepRoutines, caller,
                                                    input.includeInactive) :
                Respond("listMyRoutines", caller, input,
                        Ok([items |-> routines, total |-> Len(routines)]))

-----------------------------------------------------------------------------
(* Sleep Log Service.                                                      *)

\* crypto.randomUUID() for a log: an identifier no row has.
NewLogId(logs) ==
    CHOOSE n \in 1..(Cardinality(logs) + 1) : \A l \in logs : l.id # n

\* Mutant: the select checks that the routine exists, not whose it is.
RoutineCheckExistenceOnly(routines, routineId, uid) ==
    Truthy(routineId) /\ ~\E r \in routines : r.id = Get(routineId)

\* if (input.routineId) { select ...; if (!routine[0]) throw FORBIDDEN }
RoutineCheckFails(routines, routineId, uid) ==
    Truthy(routineId) /\ SelectRoutine(routines, Get(routineId), uid) = {}

\* references: () => SleepRoutines.columns.id, where the storage enforces it.
ReferenceHolds(enforced, routines, ref) ==
    \/ ~enforced
    \/ ~IsDefined(ref)
    \/ \E r \in routines : r.id = Get(ref)

\* The log row createSleepLog inserts.
NewLogRow(lid, uid, input, at) ==
    [id |-> lid, userId |-> uid,
     routineId |-> input.routineId,
     sleepDate |-> Some(OrElse(input.sleepDate, at)),
     bedTime |-> input.bedTime, wakeTime |-> input.wakeTime,
     sleepQualityScore |-> input.sleepQualityScore, notes |-> input.notes,
     createdAt |-> at]

createSleepLog(caller, input) ==
    /\ UNCHANGED <<SleepRoutines, SleepRoutineSteps, now, foreignKeys, pending, history>>
    /\ IF ~requireUser(caller)
         THEN /\ Respond("createSleepLog", caller, input, Error("UNAUTHORIZED"))
              /\ UNCHANGED SleepLogs
         ELSE IF RoutineCheckFails(SleepRoutines, input.routineId, caller)
           THEN /\ Respond("createSleepLog", caller, input, Error("FORBIDDEN"))
                /\ UNCHANGED SleepLogs
           ELSE IF ~ReferenceHolds(foreignKeys, SleepRoutines, input.routineId)
             THEN /\ Respond("createSleepLog", caller, input, Error("STORAGE_ERROR"))
                  /\ UNCHANGED SleepLogs
             ELSE /\ Cardinality(SleepLogs) < MaxLogs
                  /\ LET logId == NewLogId(SleepLogs)
                     IN /\ SleepLogs' = SleepLogs \cup
                              {NewLogRow(logId, caller, input, now)}
                        /\ Respond("createSleepLog", caller, input, Ok([id |-> logId]))

\* select().from(SleepLogs).where(id = lid AND userId = uid)
SelectLog(logs, lid, uid) == { l \in logs : l.id = lid /\ l.userId = uid }

\* The updateData of updateSleepLog: the defined fields of the patch.
LogUpdateData(patch) ==
    [k \in { f \in sleepLogFields : IsDefined(patch[f]) } |-> patch[k]]

\* if (Object.keys(updateData).length > 0) update ... set(updateData)
ApplyLogPatch(logs, lid, uid, data) ==
    IF DOMAIN data # {} THEN UpdateWhere(logs, lid, uid, data) ELSE logs

updateSleepLog(caller, input) ==
    /\ UNCHANGED <<SleepRoutines, SleepRoutineSteps, now, foreignKeys, pending, history>>
    /\ IF ~requireUser(caller)
         THEN /\ Respond("updateSleepLog", caller, input, Error("UNAUTHORIZED"))
              /\ UNCHANGED SleepLogs
         ELSE IF SelectLog(SleepLogs, input.id, caller) = {}
           THEN /\ Respond("updateSleepLog", caller, input, Error("NOT_FOUND"))
                /\ UNCHANGED SleepLogs
           ELSE IF RoutineCheckFails(SleepRoutines, input.patch.routineId, caller)
             THEN /\ Respond("updateSleepLog", caller, input, Error("FORBIDDEN"))
                  /\ UNCHANGED SleepLogs
             ELSE IF ~ReferenceHolds(foreignKeys, SleepRoutines, input.patch.routineId)
               THEN /\ Respond("updateSleepLog", caller, input, Error("STORAGE_ERROR"))
                    /\ UNCHANGED SleepLogs
               ELSE /\ SleepLogs' = ApplyLogPatch(SleepLogs, input.id, caller,
                                                  LogUpdateData(input.patch))
                    /\ Respond("updateSleepLog", caller, input, Ok(None))

\* The filters of listSleepLogs: the caller, and the routine if (input.routineId).
LogFilter(l, uid, routineId) ==
    l.userId = uid /\ (Truthy(routineId) => l.routineId = routineId)

\* .orderBy(desc(sleepDate), desc(createdAt)): a may stand before b.
LogOrder(a, b) ==
    \/ Get(a.sleepDate) > Get(b.sleepDate)
    \/ Get(a.sleepDate) = Get(b.sleepDate) /\ a.createdAt >= b.createdAt

SelectLogsOrdered(logs, uid, routineId) ==
    { f \in Enumerations({ l \in logs : LogFilter(l, uid, routineId) }) :
        \A i, j \in DOMAIN f : i < j => LogOrder(f[i], f[j]) }

Min(a, b) == IF a <= b THEN a ELSE b

\* .limit(pageSize).offset((page - 1) * pageSize)
Page(rows, page, pageSize) ==
    SubSeq(rows, (page - 1) * pageSize + 1, Min(page * pageSize, Len(rows)))

listSleepLogs(caller, input) ==
    /\ UNCHANGED <<tables, now, foreignKeys, pending, history>>
    /\ IF ~requireUser(caller)
         THEN Respond("listSleepLogs", caller, input, Error("UNAUTHORIZED"))
         ELSE \E rows \in SelectLogsOrdered(SleepLogs, caller, input.routineId) :
                LET logs == Page(rows, input.page, input.pageSize)
                IN Respond("listSleepLogs", caller, input,
                           Ok([items |-> logs, page |-> input.page,
                               pageSize |-> input.pageSize, total |-> Len(logs)]))

\* Time passes between two statements.
Tick ==
    /\ now < MaxClock
    /\ now' = now + 1
    /\ UNCHANGED <<tables, foreignKeys, pending, request, result, history>>

-----------------------------------------------------------------------------
(* updateRoutine, statement by statement: calls overlap at every await.    *)

FreeSlots == (1..MaxPending) \ DOMAIN pending

Without(f, k) == [x \in DOMAIN f \ {k} |-> f[x]]

\* requireUser, the select of the routine, if (!routine) throw NOT_FOUND.
updateRoutineSelect(caller, input) ==
    /\ UNCHANGED <<tables, now, foreignKeys, createdSteps>>
    /\ IF ~requireUser(caller)
         THEN /\ Respond("updateRoutine", caller, input, Error("UNAUTHORIZED"))
              /\ UNCHANGED <<pending, batch>>
         ELSE IF SelectRoutine(SleepRoutines, input.id, caller) = {}
           THEN /\ Respond("updateRoutine", caller, input, Error("NOT_FOUND"))
                /\ UNCHANGED <<pending, batch>>
           ELSE /\ FreeSlots # {}
                /\ Len(IF DOMAIN pending = {} THEN <<>> ELSE batch) < MaxPending
                /\ LET slot == CHOOSE k \in FreeSlots : \A j \in FreeSlots : k <= j
                       begun == IF DOMAIN pending = {} THEN <<>> ELSE batch
                   IN /\ pending' = pending @@
                            (slot :> [caller |-> caller, input |-> input,
                                      pc |-> "update", at |-> 0])
                      /\ batch' = IF IsDefined(input.patch.steps)
                                    THEN Append(begun, [id |-> input.id,
                                                        steps |-> Get(input.patch.steps)])
                                    ELSE begun
                /\ UNCHANGED <<request, result>>

\* now = new Date(); the update of the row.
updateRoutineUpdate(slot) ==
    /\ slot \in DOMAIN pending
    /\ pending[slot].pc = "update"
    /\ UNCHANGED <<SleepRoutineSteps, SleepLogs, now, foreignKeys, history>>
    /\ LET call == pending[slot]
       IN /\ SleepRoutines' =
                UpdateWhere(SleepRoutines, call.input.id, call.caller,
                            RoutineUpdateData(call.input.patch, now))
          /\ IF IsDefined(call.input.patch.steps)
               THEN /\ pending' = [pending EXCEPT ![slot].pc = "delete",
                                                  ![slot].at = now]
                    /\ UNCHANGED <<request, result>>
               ELSE /\ pending' = Without(pending, slot)
                    /\ Respond("updateRoutine", call.caller, call.input, Ok(None))

\* if (input.steps) the delete of the routine's steps.
updateRoutineDelete(slot) ==
    /\ slot \in DOMAIN pending
    /\ pending[slot].pc = "delete"
    /\ UNCHANGED <<SleepRoutines, SleepLogs, now, foreignKeys, batch>>
    /\ LET call == pending[slot]
       IN /\ SleepRoutineSteps' = DeleteSteps(SleepRoutineSteps, call.input.id)
          /\ createdSteps' = [createdSteps EXCEPT ![call.input.id] = None]
          /\ IF Len(Get(call.input.patch.steps)) > 0
               THEN /\ pending' = [pending EXCEPT ![slot].pc = "insert"]
                    /\ UNCHANGED <<request, result>>
               ELSE /\ pending' = Without(pending, slot)
                    /\ Respond("updateRoutine", call.caller, call.input, Ok(None))

\* if (input.steps.length) the insert of the new steps.
updateRoutineInsert(slot) ==
    /\ slot \in DOMAIN pending
    /\ pending[slot].pc = "insert"
    /\ UNCHANGED <<SleepRoutines, SleepLogs, now, foreignKeys, history>>
    /\ LET call == pending[slot]
       IN /\ SleepRoutineSteps' =
                InsertSteps(SleepRoutineSteps, call.input.id,
                            Get(call.input.patch.steps), call.at)
          /\ pending' = Without(pending, slot)
          /\ Respond("updateRoutine", call.caller, call.input, Ok(None))

-----------------------------------------------------------------------------
(* Specifications.                                                         *)

InitWith(enforcement) ==
    /\ SleepRoutines = {}
    /\ SleepRoutineSteps = {}
    /\ SleepLogs = {}
    /\ now = 0
    /\ foreignKeys \in enforcement
    /\ pending = <<>>
    /\ request = [op |-> "none", caller |-> NoUser, input |-> None]
    /\ result = [op |-> "none", caller |-> NoUser, code |-> "OK", data |-> None]
    /\ createdSteps = <<>>
    /\ batch = <<>>

\* The storage may or may not enforce the references of the schema.
Init == InitWith(BOOLEAN)

\* For the specifications in which no reference reaches the storage unchecked
\* (no sleep log is written with the empty string as its routine id): there
\* the enforcement never decides anything.
InitChecked == InitWith({TRUE})

\* Routines and their step lists.
NextSteps ==
    \/ \E c \in Callers, s \in OptionalStepLists :
          createRoutine(c, WithSteps(MinimalFields, s))
    \/ \E c \in Callers, i \in RoutineIdStrings, s \in OptionalStepLists :
          updateRoutine(c, [id |-> i, patch |-> WithSteps(EmptyPatch, s)])
    \/ \E c \in Callers, i \in RoutineIdStrings : getRoutineWithSteps(c, [id |-> i])

SpecSteps == InitChecked /\ [][NextSteps]_vars

\* Routines and their fields.
NextFields ==
    \/ \E c \in Callers, f \in {FullFields} :
          createRoutine(c, WithSteps(f, None))
    \/ \E c \in Callers, i \in RoutineIdStrings, f \in RoutinePatches :
          updateRoutine(c, [id |-> i, patch |-> WithSteps(f, None)])
    \/ \E c \in Callers, i \in RoutineIdStrings : archiveRoutine(c, [id |-> i])
    \/ \E c \in Callers, b \in BOOLEAN : listMyRoutines(c, [includeInactive |-> b])
    \/ Tick

SpecFields == InitChecked /\ [][NextFields]_vars

\* Sleep logs and their routine references.
LogInputs ==
    { [EmptyLogInput EXCEPT !.routineId = r] : r \in OptionalRoutineIds }
        \cup {NightPatch}

NextLogs ==
    \/ \E c \in Callers : createRoutine(c, WithSteps(MinimalFields, None))
    \/ \E c \in Callers, i \in LogInputs : createSleepLog(c, i)
    \/ \E c \in Callers, i \in LogIdStrings, p \in LogInputs :
          updateSleepLog(c, [id |-> i, patch |-> p])

SpecLogs == Init /\ [][NextLogs]_vars

\* Sleep logs, their dates and their listing.
FirstRoutine == {None, Some(EmptyString), Some(1)}

DatedLogInputs ==
    { [EmptyLogInput EXCEPT !.routineId = r, !.sleepDate = d] :
        r \in FirstRoutine, d \in OptionalDates }

ListInputs ==
    [page : 1..MaxPage, pageSize : 1..MaxPage, routineId : FirstRoutine]

NextList ==
    \/ \E c \in Callers :
          SleepRoutines = {} /\ createRoutine(c, WithSteps(MinimalFields, None))
    \/ \E c \in Callers, i \in DatedLogInputs : createSleepLog(c, i)
    \/ \E c \in Callers, i \in ListInputs : listSleepLogs(c, i)
    \/ Tick

SpecList == Init /\ [][NextList]_vars

\* Overlapping updateRoutine calls.
ShortStepLists == { s \in OptionalStepLists : IsDefined(s) => Len(Get(s)) <= 1 }

NextOverlap ==
    \/ \E c \in Callers :
          SleepRoutines = {} /\ createRoutine(c, WithSteps(MinimalFields, None))
    \/ \E c \in Callers, i \in RoutineIdStrings, s \in ShortStepLists :
          updateRoutineSelect(c, [id |-> i, patch |-> WithSteps(EmptyPatch, s)])
    \/ \E k \in 1..MaxPending : updateRoutineUpdate(k)
    \/ \E k \in 1..MaxPending : updateRoutineDelete(k)
    \/ \E k \in 1..MaxPending : updateRoutineInsert(k)

SpecOverlap == InitChecked /\ [][NextOverlap]_vars

\* Every handler, two users and an anonymous caller.
OneStep == CHOOSE x \in routineStepInput : ~IsDefined(x.orderIndex)
SomeStepLists == {None, Some(<<OneStep>>)}
OneStepList == {Some(<<OneStep>>)}
ReferenceInputs ==
    { [EmptyLogInput EXCEPT !.routineId = r] : r \in {None} \cup { Some(i) : i \in 1..MaxRoutines } }

Next ==
    \/ \E c \in Callers, s \in OneStepList :
          createRoutine(c, WithSteps(MinimalFields, s))
    \/ \E c \in Callers, i \in RoutineIdStrings, s \in SomeStepLists :
          updateRoutine(c, [id |-> i, patch |-> WithSteps(EmptyPatch, s)])
    \/ \E c \in Callers, i \in RoutineIdStrings : archiveRoutine(c, [id |-> i])
    \/ \E c \in Callers, i \in RoutineIdStrings : getRoutineWithSteps(c, [id |-> i])
    \/ \E c \in Callers, b \in BOOLEAN : listMyRoutines(c, [includeInactive |-> b])
    \/ \E c \in Callers, i \in ReferenceInputs : createSleepLog(c, i)
    \/ \E c \in Callers, i \in LogIdStrings, p \in ReferenceInputs :
          updateSleepLog(c, [id |-> i, patch |-> p])
    \/ \E c \in Callers, r \in OptionalRoutineIds :
          listSleepLogs(c, [page |-> 1, pageSize |-> MaxPage, routineId |-> r])

Spec == InitChecked /\ [][Next]_vars

-----------------------------------------------------------------------------
(* What the claims speak of.                                               *)

\* The step of the behaviour is a handler answering a call of `op`.
Answered(op) == request'.op = op /\ now' = now /\ pending' = pending

\* The last call was `op` and it succeeded.
Succeeded(op) == request.op = op /\ result.code = "OK"

StepsOf(steps, rid) == { s \in steps : s.routineId = rid }

\* What a step row says, its identifier and creation time aside.
StepContent(row) ==
    [orderIndex |-> row.orderIndex, title |-> row.title,
     description |-> row.description, minutesBeforeBed |-> row.minutesBeforeBed]

\* What the claims expect of the i-th step definition of a list.
ExpectedContent(list, i) ==
    [orderIndex |-> IF list[i].orderIndex = None THEN i ELSE list[i].orderIndex[1],
     title |-> list[i].title, description |-> list[i].description,
     minutesBeforeBed |-> list[i].minutesBeforeBed]

\* The rows are exactly the steps of the list, one row for each definition.
RowsAreList(rows, list) ==
    /\ Cardinality(rows) = Len(list)
    /\ \E f \in Enumerations(rows) :
          \A i \in 1..Len(list) : StepContent(f[i]) = ExpectedContent(list, i)

\* The sequence of rows holds exactly the steps of the list, in some order.
SeqIsList(seq, list) ==
    /\ Len(seq) = Len(list)
    /\ \E p \in Enumerations(1..Len(list)) :
          \A k \in 1..Len(seq) : StepContent(seq[k]) = ExpectedContent(list, p[k])

-----------------------------------------------------------------------------
\* C1: getRoutineWithSteps on a routine whose steps no updateRoutine has
\* replaced returns exactly the N steps given to createRoutine, in
\* non-decreasing order of order index, the order index of the i-th given
\* step being the caller's value if given and i otherwise.
C1_CreatedStepsReturned ==
    Succeeded("getRoutineWithSteps") =>
        LET rid == result.data.routine.id
            steps == result.data.steps
        IN  IsDefined(createdSteps[rid]) =>
              /\ result.data.routine.userId = request.caller
              /\ SeqIsList(steps, Get(createdSteps[rid]))
              /\ \A i, j \in 1..Len(steps) :
                    i < j => steps[i].orderIndex <= steps[j].orderIndex

\* A routine created with two steps comes back with the second given step first.
C1_Witness ==
    /\ Succeeded("getRoutineWithSteps")
    /\ IsDefined(createdSteps[result.data.routine.id])
    /\ LET list == Get(createdSteps[result.data.routine.id])
           steps == result.data.steps
       IN /\ Len(list) = 2 /\ Len(steps) = 2
          /\ IsDefined(list[1].orderIndex) /\ ~IsDefined(list[2].orderIndex)
          /\ steps[1].title = list[2].title /\ steps[1].orderIndex = 2
          /\ steps[2].title = list[1].title /\ steps[2].orderIndex > 2

\* C2: after an updateRoutine by the owner, served alone, the routine's steps
\* are exactly the supplied list if one is supplied (none at all for the empty
\* list), and exactly what they were if none is supplied.
C2_StepsReplacedOrKept ==
    [][ (Answered("updateRoutine") /\ result'.code = "OK") =>
          LET rid == request'.input.id
              given == request'.input.patch.steps
          IN  /\ IF IsDefined(given)
                   THEN RowsAreList(StepsOf(SleepRoutineSteps', rid), Get(given))
                   ELSE StepsOf(SleepRoutineSteps', rid) = StepsOf(SleepRoutineSteps, rid)
              /\ \A other \in RoutineIdStrings \ {rid} :
                    StepsOf(SleepRoutineSteps', other) = StepsOf(SleepRoutineSteps, other)
      ]_vars

\* An update with the empty list left a routine without steps while another
\* routine kept its own.
C2_Witness ==
    /\ Succeeded("updateRoutine")
    /\ request.input.patch.steps = Some(<<>>)
    /\ StepsOf(SleepRoutineSteps, request.input.id) = {}
    /\ createdSteps[request.input.id] = None
    /\ SleepRoutineSteps # {}

\* C3: a successful updateRoutine changes, on the target routine, only the base
\* fields defined in the input, and updatedAt (set to the time of the call);
\* id, userId, isActive, createdAt and the omitted fields keep their values,
\* and every other routine row is unchanged.
C3_SparsePatch ==
    [][ (Answered("updateRoutine") /\ result'.code = "OK") =>
          LET rid == request'.input.id
              patch == request'.input.patch
          IN  /\ Cardinality(SleepRoutines') = Cardinality(SleepRoutines)
              /\ \A r \in SleepRoutines :
                    IF r.id = rid
                      THEN \E u \in SleepRoutines' :
                             /\ u.id = r.id /\ u.userId = r.userId
                             /\ u.isActive = r.isActive /\ u.createdAt = r.createdAt
                             /\ u.updatedAt = now
                             /\ \A k \in routineBaseFields :
                                   u[k] = IF patch[k] # None THEN patch[k] ELSE r[k]
                      ELSE r \in SleepRoutines'
      ]_vars

\* A patch of the notes alone acted on a routine created earlier: the notes
\* are the patch's, the name is still the created one, updatedAt moved on.
C3_Witness ==
    /\ Succeeded("updateRoutine")
    /\ request.input.patch = WithSteps(NotesPatch, None)
    /\ \E r \in SleepRoutines :
          /\ r.id = request.input.id
          /\ r.notes = NotesPatch.notes /\ r.name = FullFields.name
          /\ r.createdAt < r.updatedAt
    /\ Cardinality(SleepRoutines) = 2

\* The caller owns a routine with this id.
Owns(routines, caller, rid) == \E r \in routines : r.id = rid /\ r.userId = caller

\* C4: archiveRoutine by the owner of an existing routine succeeds, whatever
\* the active flag was, and leaves isActive = FALSE; with an id that does not
\* exist or belongs to another user it fails NOT_FOUND and leaves every routine
\* row unchanged.
C4_ArchiveOwnedOrNotFound ==
    [][ (Answered("archiveRoutine") /\ request'.caller \in Users) =>
          LET rid == request'.input.id
          IN IF Owns(SleepRoutines, request'.caller, rid)
               THEN /\ result'.code = "OK"
                    /\ \A r \in SleepRoutines' : r.id = rid => r.isActive = FALSE
                    /\ Owns(SleepRoutines', request'.caller, rid)
               ELSE /\ result'.code = "NOT_FOUND"
                    /\ SleepRoutines' = SleepRoutines
      ]_vars

\* Archiving the routine of another user failed NOT_FOUND; that routine is active.
C4_Witness ==
    /\ request.op = "archiveRoutine"
    /\ result.code = "NOT_FOUND"
    /\ \E r \in SleepRoutines :
          /\ r.id = request.input.id /\ r.userId # request.caller /\ r.isActive
    /\ \E r \in SleepRoutines : r.userId = request.caller /\ ~r.isActive

\* The elements of a sequence.
Range(seq) == { seq[i] : i \in 1..Len(seq) }

\* C5: listMyRoutines returns exactly the caller's active routines when
\* includeInactive is false, all of the caller's routines when it is true,
\* each once, and total is the number of returned items.
C5_ListActiveOrAll ==
    Succeeded("listMyRoutines") =>
        LET items == result.data.items
            mine == { r \in SleepRoutines : r.userId = request.caller }
        IN  /\ Range(items) = IF request.input.includeInactive
                                THEN mine
                                ELSE { r \in mine : r.isActive }
            /\ Cardinality(Range(items)) = Len(items)
            /\ result.data.total = Len(items)
            /\ ~request.input.includeInactive => \A i \in 1..Len(items) : items[i].isActive

\* The default listing left out the caller's archived routine and kept the
\* active one.
C5_Witness ==
    /\ Succeeded("listMyRoutines")
    /\ ~request.input.includeInactive
    /\ result.data.total = 1
    /\ \E r \in SleepRoutines : r.userId = request.caller /\ ~r.isActive

\* C6: createSleepLog by an authenticated user with a reference to a routine
\* of another user fails FORBIDDEN and stores no log; with no routine reference
\* it succeeds and stores exactly one new log, owned by the caller.
C6_ForeignRoutineForbidden ==
    [][ (Answered("createSleepLog") /\ request'.caller \in Users) =>
          LET caller == request'.caller
              ref == request'.input.routineId
          IN  /\ (/\ ref # None
                  /\ \E r \in SleepRoutines : r.id = ref[1] /\ r.userId # caller)
                    => (result'.code = "FORBIDDEN" /\ SleepLogs' = SleepLogs)
              /\ ref = None
                    => /\ result'.code = "OK"
                       /\ \E l \in SleepLogs' :
                             /\ l \notin SleepLogs
                             /\ l.userId = caller
                             /\ l.id = result'.data.id
                             /\ \A old \in SleepLogs : old.id # l.id
                             /\ SleepLogs' = SleepLogs \cup {l}
      ]_vars

\* A log for the routine of another user was refused, and nothing was stored.
C6_Witness ==
    /\ request.op = "createSleepLog"
    /\ result.code = "FORBIDDEN"
    /\ request.caller \in Users
    /\ \E r \in SleepRoutines :
          r.id = Get(request.input.routineId) /\ r.userId # request.caller
    /\ SleepLogs = {}

SortedLogs(seq) ==
    \A i, j \in 1..Len(seq) :
        i < j => \/ seq[i].sleepDate[1] > seq[j].sleepDate[1]
                 \/ /\ seq[i].sleepDate[1] = seq[j].sleepDate[1]
                    /\ seq[i].createdAt >= seq[j].createdAt

\* The items are positions (page-1)*pageSize+1 .. page*pageSize of the rows,
\* put in the order of the listing, and total counts them.
IsPageOf(data, rows, page, pageSize) ==
    /\ data.total = Len(data.items)
    /\ Len(data.items) <= pageSize
    /\ \E all \in Enumerations(rows) :
          /\ SortedLogs(all)
          /\ \A k \in 1..Len(all) :
                LET at == k - (page - 1) * pageSize
                IN (at >= 1 /\ at <= pageSize) =>
                      (at <= Len(data.items) /\ data.items[at] = all[k])
          /\ \A at \in 1..Len(data.items) : at + (page - 1) * pageSize <= Len(all)

\* C8: listSleepLogs returns the page of the caller's logs, restricted to the
\* given routine when a routineId filter is supplied, sorted by sleep date
\* descending, then creation time descending; total is the number of items of
\* the page, at most pageSize.
C8_ListPage ==
    Succeeded("listSleepLogs") =>
        LET filter == request.input.routineId
            rows == { l \in SleepLogs :
                        /\ l.userId = request.caller
                        /\ filter # None => l.routineId = filter }
        IN IsPageOf(result.data, rows, request.input.page, request.input.pageSize)

\* The same, for the filters the handler takes as a filter: a routineId that is
\* not the empty string.
ListPageOfNonEmptyFilter ==
    (Succeeded("listSleepLogs") /\ request.input.routineId # Some(EmptyString)) =>
        LET filter == request.input.routineId
            rows == { l \in SleepLogs :
                        /\ l.userId = request.caller
                        /\ filter # None => l.routineId = filter }
        IN IsPageOf(result.data, rows, request.input.page, request.input.pageSize)

\* The second page of size one holds the older of two nights of one routine.
ListPageReached ==
    /\ Succeeded("listSleepLogs")
    /\ request.input.page = 2 /\ request.input.pageSize = 1
    /\ request.input.routineId = Some(1)
    /\ Len(result.data.items) = 1
    /\ \E l \in SleepLogs :
          /\ l.userId = request.caller /\ l.routineId = Some(1)
          /\ l.sleepDate[1] > result.data.items[1].sleepDate[1]

\* The calls of the batch that supplied steps for the routine.
CallsOn(rid) == { k \in 1..Len(batch) : batch[k].id = rid }

Quiescent == DOMAIN pending = {} /\ batch # <<>>

\* C9: once the overlapping updateRoutine calls that supplied step lists for a
\* routine have all completed, the routine's steps are exactly the list of one
\* single call among them.
C9_OneCallsList ==
    Quiescent =>
        \A rid \in { batch[k].id : k \in 1..Len(batch) } :
            \E k \in CallsOn(rid) :
                RowsAreList(StepsOf(SleepRoutineSteps, rid), batch[k].steps)

\* C9, amended: the routine's steps are the whole lists of one or more of the
\* calls, and nothing else.
C9_WholeListsOfSomeCalls ==
    Quiescent =>
        \A rid \in { batch[k].id : k \in 1..Len(batch) } :
            LET rows == StepsOf(SleepRoutineSteps, rid)
            IN \E K \in SUBSET CallsOn(rid) :
                  /\ K # {}
                  /\ \E from \in [rows -> K] :
                        \A k \in K :
                            RowsAreList({ r \in rows : from[r] = k }, batch[k].steps)

\* Two calls with different one-step lists have completed and the routine
\* holds both steps.
C9_Witness ==
    /\ Quiescent
    /\ Len(batch) = 2
    /\ batch[1].id = batch[2].id
    /\ Len(batch[1].steps) = 1 /\ Len(batch[2].steps) = 1
    /\ batch[1].steps # batch[2].steps
    /\ Cardinality(StepsOf(SleepRoutineSteps, batch[1].id)) = 2

\* The owner of the routine a step row belongs to.
StepOwners(routines, step) == { r.userId : r \in { x \in routines : x.id = step.routineId } }

=============================================================================
